---- MODULE Spec2Model ----
(***************************************************************************)
(* GeekMagic integration: the screen configuration held in the config      *)
(* entry's options and the operations that change it (layout selector,     *)
(* slot-widget selector, template selector / apply_template), select       *)
(* entity discovery, and the preview camera.                               *)
(*                                                                         *)
(* Python containers are objects with identity.  The configuration is      *)
(* therefore kept in a heap: a sequence of objects indexed by address.     *)
(* A dict is a function from key strings to values, a list is a sequence,  *)
(* and a value that is itself a container is the address of that object.   *)
(* Allocation appends to the heap, so an address never changes meaning;    *)
(* an in-place update would show as heap[a] changing for an old address a. *)
(***************************************************************************)
EXTENDS Integers, Sequences, FiniteSets, TLC

VARIABLES
  heap,                 \* address -> object (dict or list)
  options,              \* address of config_entry.options
  current_entity_ids,   \* async_setup_entry: keys of the select entities created
  hass_entities,        \* entities handed to async_add_entities, in order
  update_calls,         \* number of hass.config_entries.async_update_entry calls
  last_call,            \* the handler invocation that ran last, with its result
  prev_call,            \* the handler invocation before that one
  prev_options,         \* config_entry.options as it was before the last call
  n_calls,              \* number of handler invocations so far
  cam_last_image,       \* GeekMagicPreviewCamera._last_image
  cam_added,            \* async_added_to_hass has run (listener registered)
  coord_last_image,     \* coordinator.last_image
  coord_success,        \* coordinator.last_update_success
  n_images,             \* images rendered so far
  cam_returned,         \* value returned by the last async_camera_image call
  cam_step,             \* the camera or coordinator step that ran last
  cam_prev,             \* _last_image as it was before that step
  current_screen_index, \* coordinator: index of the active screen
  in_flight,            \* coordinator: the cycle that is running, if any
  pending,              \* coordinator: the coalesced follow-up request, if any
  cycles,               \* the render+upload cycles started so far, in order
  set_screen_calls,     \* the arguments of the async_set_screen calls so far
  superseded,           \* follow-up requests replaced by a later one
  n_polls,              \* timer ticks that started a poll
  last_select,          \* the current-screen selection that ran last
  device_theme,         \* the theme the device shows
  device_state,         \* coordinator.device_state: absent, or the state fetched
  refresh_pending,      \* async_request_refresh was called and has not run yet
  last_mode_call,       \* the mode selection that ran last, with what it did
  dbg_pc,               \* debug_render.main: where the script is
  dbg_args,             \* debug_render.main: the parsed arguments
  dbg_idx,              \* debug_render.main: idx of the cycle loop
  dbg_ops,              \* the device operations the script has issued, in order
  dbg_exit              \* how the try block was left

cfg_vars == <<heap, options, current_entity_ids, hass_entities, update_calls,
              last_call, prev_call, prev_options, n_calls>>
cam_vars == <<cam_last_image, cam_added, coord_last_image, coord_success,
              n_images, cam_returned, cam_step, cam_prev>>
scr_vars == <<current_screen_index, in_flight, pending, cycles, set_screen_calls,
              superseded, n_polls, last_select>>
mode_vars == <<device_theme, device_state, refresh_pending, last_mode_call>>
dbg_vars == <<dbg_pc, dbg_args, dbg_idx, dbg_ops, dbg_exit>>
vars == <<cfg_vars, cam_vars, scr_vars, mode_vars, dbg_vars>>
\* what the steps of one part leave alone
outside_cfg == <<cam_vars, scr_vars, mode_vars, dbg_vars>>
outside_cam == <<cfg_vars, scr_vars, mode_vars, dbg_vars>>
outside_scr == <<cfg_vars, cam_vars, mode_vars, dbg_vars>>
outside_mode == <<cfg_vars, cam_vars, scr_vars, dbg_vars>>
outside_dbg == <<cfg_vars, cam_vars, scr_vars, mode_vars>>

----------------------------------------------------------------------------
(* Bounds of the model *)

\* handler invocations explored from the initial configuration
MaxCalls == 2
\* largest screen index a direct apply_template call is given
MaxScreenIndex == 2
\* images the render cycle produces
MaxImages == 5
\* timer ticks that start a poll
MaxPolls == 2
\* async_set_screen calls
MaxSetScreen == 2
\* selections explored with every option a selector offers
MaxPicks == 1
\* uploads of the debug script's cycle loop
MaxUploads == 3

----------------------------------------------------------------------------
(* Python values *)

\* None, where the other values are strings
None == "<None>"
\* None as a screen_index / slot_index of an entity description
NoneIndex == -1
\* an optional record: absent, or a one-element sequence holding it
Absent == <<>>
Some(x) == <<x>>

\* d.get(k, default)
Get(d, k, default) == IF k \in DOMAIN d THEN d[k] ELSE default
\* d[k] = v on a dict d
SetKey(d, k, v) == [x \in (DOMAIN d) \cup {k} |-> IF x = k THEN v ELSE d[x]]
\* list.pop(i), i counted from 1
Pop(s, i) == [j \in 1..(Len(s) - 1) |-> IF j < i THEN s[j] ELSE s[j + 1]]
\* s[i] = v on a list, i counted from 1
SetItem(s, i, v) == [s EXCEPT ![i] = v]
Range(s) == {s[i] : i \in DOMAIN s}

----------------------------------------------------------------------------
(* const.py: keys and layout identifiers *)

CONF_SCREENS == "screens"
CONF_LAYOUT == "layout"
CONF_WIDGETS == "widgets"

LAYOUT_GRID_2X2 == "grid_2x2"
LAYOUT_GRID_2X3 == "grid_2x3"
LAYOUT_HERO == "hero"
LAYOUT_SPLIT == "split"
LAYOUT_THREE_COLUMN == "three_column"

\* slots per layout
LAYOUT_SLOT_COUNTS ==
  (LAYOUT_GRID_2X2 :> 4) @@ (LAYOUT_GRID_2X3 :> 6) @@ (LAYOUT_HERO :> 4)
  @@ (LAYOUT_SPLIT :> 2) @@ (LAYOUT_THREE_COLUMN :> 3)

\* widget type -> display name
WIDGET_TYPE_NAMES ==
  << <<"gauge", "Gauge">>, <<"chart", "Chart">>, <<"entity", "Entity">>,
     <<"status", "Status">>, <<"weather", "Weather">>, <<"media", "Media">>,
     <<"clock", "Clock">>, <<"text", "Text">>, <<"camera", "Camera">> >>

----------------------------------------------------------------------------
(* templates.py: the template catalog.  The options mapping of each widget *)
(* template is an object of its own: it lives at addresses                 *)
(* 1..Len(TemplateOptionMappings) of the heap, and a widget template       *)
(* holds its address.                                                      *)

TemplateOptionMappings ==
  << [style |-> "ring", min |-> 0, max |-> 100, unit |-> "%"],
     [style |-> "ring", min |-> 0, max |-> 100, unit |-> "%"],
     [style |-> "ring", min |-> 0, max |-> 100, unit |-> "%"],
     [hours |-> 24, show_value |-> TRUE, show_range |-> FALSE],
     [show_name |-> TRUE, show_unit |-> TRUE, icon |-> "thermometer"],
     [show_name |-> TRUE, show_unit |-> TRUE, icon |-> "drop"],
     [show_name |-> TRUE, icon |-> "bulb"],
     [icon |-> "motion", on_text |-> "Motion", off_text |-> "Clear"],
     [icon |-> "door", on_text |-> "Open", off_text |-> "Closed"],
     [icon |-> "home", on_text |-> "Home", off_text |-> "Away"],
     [show_forecast |-> TRUE, forecast_days |-> 3, show_humidity |-> TRUE],
     [show_name |-> TRUE, show_unit |-> TRUE, icon |-> "thermometer"],
     [show_name |-> TRUE, show_unit |-> TRUE, icon |-> "drop"],
     [show_name |-> TRUE, icon |-> "sun"],
     [show_artist |-> TRUE, show_album |-> FALSE, show_progress |-> TRUE],
     [show_name |-> TRUE, show_unit |-> TRUE],
     [text |-> "Now Playing", size |-> "small", align |-> "center"],
     [show_name |-> TRUE],
     [show_date |-> TRUE, show_seconds |-> FALSE, time_format |-> "24h"],
     [show_name |-> TRUE, show_unit |-> TRUE, icon |-> "thermometer"],
     [show_name |-> TRUE],
     [icon |-> "home", on_text |-> "Home", off_text |-> "Away"],
     [style |-> "arc", min |-> 0, max |-> 5000, unit |-> "W"],
     [hours |-> 24, show_value |-> TRUE, show_range |-> TRUE],
     [show_name |-> TRUE, show_unit |-> TRUE],
     [icon |-> "bolt", on_text |-> "Import", off_text |-> "Export"],
     [show_label |-> TRUE, fit |-> "cover"],
     [icon |-> "door", on_text |-> "Open", off_text |-> "Closed"],
     [icon |-> "door", on_text |-> "Open", off_text |-> "Closed"],
     [icon |-> "motion", on_text |-> "Detected", off_text |-> "Clear"],
     [icon |-> "alarm", on_text |-> "Armed", off_text |-> "Disarmed"],
     [icon |-> "lock", on_text |-> "Locked", off_text |-> "Unlocked"],
     [style |-> "arc", min |-> 10, max |-> 35, unit |-> "deg"],
     [style |-> "arc", min |-> 0, max |-> 100, unit |-> "%"] >>

SCREEN_TEMPLATES ==
  "system_monitor" :> [name |-> "System Monitor",
      description |-> "CPU, memory, disk, and network monitoring",
      layout |-> LAYOUT_GRID_2X2,
      widgets |-> <<
           [slot |-> 0, type |-> "gauge", options |-> 1,
            hint |-> "CPU usage sensor (e.g., sensor.processor_use)"],
           [slot |-> 1, type |-> "gauge", options |-> 2,
            hint |-> "Memory usage sensor (e.g., sensor.memory_use_percent)"],
           [slot |-> 2, type |-> "gauge", options |-> 3,
            hint |-> "Disk usage sensor (e.g., sensor.disk_use_percent)"],
           [slot |-> 3, type |-> "chart", options |-> 4,
            hint |-> "Network sensor (e.g., sensor.speedtest_download)"] >>]
  @@
  "smart_home" :> [name |-> "Smart Home",
      description |-> "Temperature, humidity, lights, motion, door, presence",
      layout |-> LAYOUT_GRID_2X3,
      widgets |-> <<
           [slot |-> 0, type |-> "entity", options |-> 5, hint |-> "Temperature sensor"],
           [slot |-> 1, type |-> "entity", options |-> 6, hint |-> "Humidity sensor"],
           [slot |-> 2, type |-> "entity", options |-> 7, hint |-> "Light entity or group"],
           [slot |-> 3, type |-> "status", options |-> 8, hint |-> "Motion sensor"],
           [slot |-> 4, type |-> "status", options |-> 9, hint |-> "Door sensor"],
           [slot |-> 5, type |-> "status", options |-> 10,
            hint |-> "Presence sensor or person entity"] >>]
  @@
  "weather" :> [name |-> "Weather Dashboard",
      description |-> "Weather with forecast and indoor conditions",
      layout |-> LAYOUT_HERO,
      widgets |-> <<
           [slot |-> 0, type |-> "weather", options |-> 11,
            hint |-> "Weather entity (e.g., weather.home)"],
           [slot |-> 1, type |-> "entity", options |-> 12, hint |-> "Indoor temperature sensor"],
           [slot |-> 2, type |-> "entity", options |-> 13, hint |-> "Indoor humidity sensor"],
           [slot |-> 3, type |-> "entity", options |-> 14,
            hint |-> "UV index or outdoor condition"] >>]
  @@
  "media_player" :> [name |-> "Media Player",
      description |-> "Now playing with album art and controls",
      layout |-> LAYOUT_HERO,
      widgets |-> <<
           [slot |-> 0, type |-> "media", options |-> 15, hint |-> "Media player entity"],
           [slot |-> 1, type |-> "entity", options |-> 16,
            hint |-> "Volume level (media_player attribute)"],
           [slot |-> 2, type |-> "text", options |-> 17],
           [slot |-> 3, type |-> "entity", options |-> 18,
            hint |-> "Media source (media_player attribute)"] >>]
  @@
  "clock" :> [name |-> "Clock Dashboard",
      description |-> "Large clock with date and status info",
      layout |-> LAYOUT_HERO,
      widgets |-> <<
           [slot |-> 0, type |-> "clock", options |-> 19],
           [slot |-> 1, type |-> "entity", options |-> 20, hint |-> "Temperature sensor"],
           [slot |-> 2, type |-> "entity", options |-> 21,
            hint |-> "Weather condition or outdoor temp"],
           [slot |-> 3, type |-> "status", options |-> 22, hint |-> "Presence indicator"] >>]
  @@
  "energy" :> [name |-> "Energy Monitor",
      description |-> "Power consumption and energy tracking",
      layout |-> LAYOUT_GRID_2X2,
      widgets |-> <<
           [slot |-> 0, type |-> "gauge", options |-> 23, hint |-> "Current power usage sensor"],
           [slot |-> 1, type |-> "chart", options |-> 24, hint |-> "Energy consumption sensor"],
           [slot |-> 2, type |-> "entity", options |-> 25,
            hint |-> "Energy cost sensor or utility meter"],
           [slot |-> 3, type |-> "status", options |-> 26, hint |-> "Grid import/export status"] >>]
  @@
  "security" :> [name |-> "Security",
      description |-> "Camera, doors, windows, and alarm status",
      layout |-> LAYOUT_GRID_2X3,
      widgets |-> <<
           [slot |-> 0, type |-> "camera", options |-> 27, hint |-> "Security camera entity"],
           [slot |-> 1, type |-> "status", options |-> 28, hint |-> "Front door sensor"],
           [slot |-> 2, type |-> "status", options |-> 29, hint |-> "Back door sensor"],
           [slot |-> 3, type |-> "status", options |-> 30, hint |-> "Motion sensor"],
           [slot |-> 4, type |-> "status", options |-> 31, hint |-> "Alarm panel state"],
           [slot |-> 5, type |-> "status", options |-> 32, hint |-> "Smart lock state"] >>]
  @@
  "thermostat" :> [name |-> "Thermostat",
      description |-> "Climate control with temperature and humidity",
      layout |-> LAYOUT_SPLIT,
      widgets |-> <<
           [slot |-> 0, type |-> "gauge", options |-> 33,
            hint |-> "Current temperature from climate entity"],
           [slot |-> 1, type |-> "gauge", options |-> 34, hint |-> "Current humidity sensor"] >>]

\* the catalog's heap addresses
TemplateAddrs == 1..Len(TemplateOptionMappings)

\* mutant: an unknown key falls back to the first template
get_template_default(template_key) ==
  IF template_key \in DOMAIN SCREEN_TEMPLATES
  THEN Some(SCREEN_TEMPLATES[template_key])
  ELSE Some(SCREEN_TEMPLATES["system_monitor"])

\* get_template: SCREEN_TEMPLATES.get(template_key)
get_template(template_key) ==
  IF template_key \in DOMAIN SCREEN_TEMPLATES
  THEN Some(SCREEN_TEMPLATES[template_key])
  ELSE Absent

----------------------------------------------------------------------------
(* Heap operations *)

\* dict(x) / list(x): a new object with the same items (a shallow copy)
Copy(h, a) == [heap |-> Append(h, h[a]), addr |-> Len(h) + 1]
\* a literal {...} or []: a new object
New(h, obj) == [heap |-> Append(h, obj), addr |-> Len(h) + 1]
\* x[k] = v on the dict at address a
Store(h, a, k, v) == [h EXCEPT ![a] = SetKey(@, k, v)]
\* x[i] = v on the list at address a (i counted from 0 as in the code)
StoreItem(h, a, i, v) == [h EXCEPT ![a] = SetItem(@, i + 1, v)]
\* x.append(v)
AppendItem(h, a, v) == [h EXCEPT ![a] = Append(@, v)]
\* x.pop(i)
PopItem(h, a, i) == [h EXCEPT ![a] = Pop(@, i + 1)]

\* list(new_options.get(CONF_SCREENS, []))
copy_screens(h, new_options) ==
  IF CONF_SCREENS \in DOMAIN h[new_options]
  THEN Copy(h, h[new_options][CONF_SCREENS])
  ELSE New(h, <<>>)

\* list(screens[screen_idx].get(CONF_WIDGETS, []))
copy_widgets(h, screen) ==
  IF CONF_WIDGETS \in DOMAIN h[screen]
  THEN Copy(h, h[screen][CONF_WIDGETS])
  ELSE New(h, <<>>)

\* what a handler hands back: the heap, config_entry.options, whether
\* async_update_entry was called, and the return value
Result(h, root, updated, ret) ==
  [heap |-> h, options |-> root, updated |-> updated, ret |-> ret]

----------------------------------------------------------------------------
(* templates.py: apply_template *)

\* f"Screen {n}"
\* mutant: the name counts the screens from 0
ScreenN_zero_based(n) ==
  << "Screen 0", "Screen 1", "Screen 2", "Screen 3", "Screen 4", "Screen 5",
     "Screen 6", "Screen 7" >>[n]

ScreenN(n) ==
  << "Screen 1", "Screen 2", "Screen 3", "Screen 4", "Screen 5", "Screen 6",
     "Screen 7", "Screen 8" >>[n]

\* the default screens appended while the list is too short
RECURSIVE ensure_screen_exists(_, _, _)
ensure_screen_exists(h, screens, screen_index) ==
  IF Len(h[screens]) <= screen_index
  THEN LET w == New(h, <<>>)
           s == New(w.heap, [name |-> ScreenN(Len(h[screens]) + 1),
                             layout |-> LAYOUT_GRID_2X2,
                             widgets |-> w.addr])
       IN ensure_screen_exists(AppendItem(s.heap, screens, s.addr), screens,
                               screen_index)
  ELSE h

\* mutant: the template's own mapping is used, not a copy of it
copy_template_options_aliased(h, a) == [heap |-> h, addr |-> a]

\* dict(widget_template["options"])
copy_template_options(h, a) == Copy(h, a)

\* mutant: the widget is given a label taken from the template's hint
widget_from_template_labelled(h, widget_template) ==
  LET w == New(h, [type |-> widget_template.type, slot |-> widget_template.slot,
                   label |-> Get(widget_template, "hint", "")])
  IN IF "options" \in DOMAIN widget_template
     THEN LET o == copy_template_options(w.heap, widget_template.options)
          IN [heap |-> Store(o.heap, w.addr, "options", o.addr), addr |-> w.addr]
     ELSE w

\* mutant: the slot is written counted from 1
widget_from_template_one_based(h, widget_template) ==
  LET w == New(h, [type |-> widget_template.type,
                   slot |-> widget_template.slot + 1])
  IN IF "options" \in DOMAIN widget_template
     THEN LET o == copy_template_options(w.heap, widget_template.options)
          IN [heap |-> Store(o.heap, w.addr, "options", o.addr), addr |-> w.addr]
     ELSE w

\* one widget built from a widget template
widget_from_template(h, widget_template) ==
  LET w == New(h, [type |-> widget_template.type, slot |-> widget_template.slot])
  IN IF "options" \in DOMAIN widget_template
     THEN LET o == copy_template_options(w.heap, widget_template.options)
          IN [heap |-> Store(o.heap, w.addr, "options", o.addr), addr |-> w.addr]
     ELSE w

\* the loop over template.get("widgets", []), appending to the list at widgets
RECURSIVE build_widgets(_, _, _)
build_widgets(h, widgets, widget_templates) ==
  IF widget_templates = <<>>
  THEN h
  ELSE LET w == widget_from_template(h, Head(widget_templates))
       IN build_widgets(AppendItem(w.heap, widgets, w.addr), widgets,
                        Tail(widget_templates))

\* mutant: the screen's own name wins over the template's
template_name_kept(template, screen) ==
  Get(screen, "name", Get(template, "name", None))

\* template.get("name", screens[screen_index].get("name"))
template_name(template, screen) == Get(template, "name", Get(screen, "name", None))

\* mutant: the loop appends to a copy of the screen's present widget list
new_widget_list_kept(h, screen) ==
  IF CONF_WIDGETS \in DOMAIN h[screen]
  THEN Copy(h, h[screen][CONF_WIDGETS])
  ELSE New(h, <<>>)

\* widgets = [] before the loop
new_widget_list(h, screen) == New(h, <<>>)

apply_template(h, root, screen_index, template_key) ==
  LET found == get_template(template_key)
  IN IF found = Absent
     THEN Result(h, root, FALSE, "False")
     ELSE
       LET template == found[1]
           c1 == Copy(h, root)
           new_options == c1.addr
           c2 == copy_screens(c1.heap, new_options)
           screens == c2.addr
           h3 == ensure_screen_exists(c2.heap, screens, screen_index)
           c4 == Copy(h3, h3[screens][screen_index + 1])
           screen == c4.addr
           h5 == StoreItem(c4.heap, screens, screen_index, screen)
           h6 == Store(h5, screen, "name", template_name(template, h5[screen]))
           h7 == Store(h6, screen, CONF_LAYOUT, template.layout)
           c8 == new_widget_list(h7, screen)
           widgets == c8.addr
           h9 == build_widgets(c8.heap, widgets, Get(template, "widgets", <<>>))
           h10 == Store(h9, screen, CONF_WIDGETS, widgets)
           h11 == Store(h10, new_options, CONF_SCREENS, screens)
       IN Result(h11, new_options, TRUE, "True")

----------------------------------------------------------------------------
(* select.py: option tables *)

LAYOUT_OPTIONS ==
  << <<LAYOUT_GRID_2X2, "Grid 2x2 (4 slots)">>,
     <<LAYOUT_GRID_2X3, "Grid 2x3 (6 slots)">>,
     <<LAYOUT_HERO, "Hero (4 slots)">>,
     <<LAYOUT_SPLIT, "Split (2 slots)">>,
     <<LAYOUT_THREE_COLUMN, "Three Column (3 slots)">> >>

WIDGET_OPTIONS == << <<"empty", "Empty">> >> \o WIDGET_TYPE_NAMES

TEMPLATE_OPTIONS ==
  << <<"custom", "Custom">>,
     <<"system_monitor", "System Monitor">>,
     <<"smart_home", "Smart Home">>,
     <<"weather", "Weather Dashboard">>,
     <<"media_player", "Media Player">>,
     <<"clock", "Clock Dashboard">>,
     <<"energy", "Energy Monitor">>,
     <<"security", "Security">> >>

Min(S) == CHOOSE x \in S : \A y \in S : x <= y

\* for key, name in table.items(): if name == option: found key; break
KeyOfName(table, option) ==
  LET hits == {i \in DOMAIN table : table[i][2] = option}
  IN IF hits = {} THEN None ELSE table[Min(hits)][1]

\* table.get(key, default) on a table of <<key, name>> pairs
NameOfKey(table, key, default) ==
  LET hits == {i \in DOMAIN table : table[i][1] = key}
  IN IF hits = {} THEN default ELSE table[Min(hits)][2]

----------------------------------------------------------------------------
(* select.py: GeekMagicScreenTemplateSelect.async_select_option *)

template_select_option(h, root, screen_idx, option) ==
  IF screen_idx = NoneIndex
  THEN Result(h, root, FALSE, None)
  ELSE LET template_key == KeyOfName(TEMPLATE_OPTIONS, option)
       IN IF template_key # None /\ template_key # "custom"
          THEN LET r == apply_template(h, root, screen_idx, template_key)
               IN Result(r.heap, r.options, r.updated, None)
          ELSE Result(h, root, FALSE, None)

(* select.py: GeekMagicScreenLayoutSelect.async_select_option *)

\* mutant: an unknown display name falls back to the default layout
layout_key_default(option) ==
  LET key == KeyOfName(LAYOUT_OPTIONS, option)
  IN IF key = None THEN LAYOUT_GRID_2X2 ELSE key

\* the loop that finds the layout key of a display name
layout_key_of(option) == KeyOfName(LAYOUT_OPTIONS, option)

\* mutant: the screen's widgets are dropped with the old layout
layout_select_option_cleared(h, root, screen_idx, option) ==
  IF screen_idx = NoneIndex
  THEN Result(h, root, FALSE, None)
  ELSE
    LET layout_key == layout_key_of(option)
        c1 == Copy(h, root)
        new_options == c1.addr
        c2 == copy_screens(c1.heap, new_options)
        screens == c2.addr
    IN IF layout_key # None /\ screen_idx < Len(c2.heap[screens])
       THEN LET c3 == Copy(c2.heap, c2.heap[screens][screen_idx + 1])
                screen == c3.addr
                h4 == StoreItem(c3.heap, screens, screen_idx, screen)
                h5 == Store(h4, screen, CONF_LAYOUT, layout_key)
                w == New(h5, <<>>)
                h6 == Store(w.heap, screen, CONF_WIDGETS, w.addr)
                h7 == Store(h6, new_options, CONF_SCREENS, screens)
            IN Result(h7, new_options, TRUE, None)
       ELSE Result(h, root, FALSE, None)

layout_select_option(h, root, screen_idx, option) ==
  IF screen_idx = NoneIndex
  THEN Result(h, root, FALSE, None)
  ELSE
    LET layout_key == layout_key_of(option)
        c1 == Copy(h, root)
        new_options == c1.addr
        c2 == copy_screens(c1.heap, new_options)
        screens == c2.addr
    IN IF layout_key # None /\ screen_idx < Len(c2.heap[screens])
       THEN LET c3 == Copy(c2.heap, c2.heap[screens][screen_idx + 1])
                screen == c3.addr
                h4 == StoreItem(c3.heap, screens, screen_idx, screen)
                h5 == Store(h4, screen, CONF_LAYOUT, layout_key)
                h6 == Store(h5, new_options, CONF_SCREENS, screens)
            IN Result(h6, new_options, TRUE, None)
       ELSE \* the copies made so far are dropped unreferenced
            Result(h, root, FALSE, None)

(* select.py: GeekMagicSlotWidgetSelect.async_select_option *)

\* widget.get("slot") == slot_idx
HasSlot(widget, slot_idx) == "slot" \in DOMAIN widget /\ widget["slot"] = slot_idx

\* mutant: the widget mapping of the previous configuration is used as is
copy_widget_aliased(h, a) == [heap |-> h, addr |-> a]

\* widgets[i] = dict(widget)
copy_widget(h, a) == Copy(h, a)

\* mutant: no search for a widget already in the slot
update_slot_append(h, widgets, slot_idx, widget_type) ==
  IF widget_type # "empty"
  THEN LET n == New(h, [type |-> widget_type, slot |-> slot_idx])
       IN AppendItem(n.heap, widgets, n.addr)
  ELSE h

\* mutant: "empty" is written as a type instead of removing the widget
update_slot_blank(h, widgets, slot_idx, widget_type) ==
  LET hits == {i \in 1..Len(h[widgets]) : HasSlot(h[h[widgets][i]], slot_idx)}
  IN IF hits # {}
     THEN LET i == Min(hits) - 1
              c == copy_widget(h, h[widgets][i + 1])
              h1 == StoreItem(c.heap, widgets, i, c.addr)
          IN Store(h1, h1[widgets][i + 1], "type", widget_type)
     ELSE IF widget_type # "empty"
          THEN LET n == New(h, [type |-> widget_type, slot |-> slot_idx])
               IN AppendItem(n.heap, widgets, n.addr)
          ELSE h

\* mutant: the widget in the slot is replaced by a new one of the type
update_slot_replace(h, widgets, slot_idx, widget_type) ==
  LET hits == {i \in 1..Len(h[widgets]) : HasSlot(h[h[widgets][i]], slot_idx)}
  IN IF hits # {}
     THEN LET i == Min(hits) - 1
          IN IF widget_type = "empty"
             THEN PopItem(h, widgets, i)
             ELSE LET n == New(h, [type |-> widget_type, slot |-> slot_idx])
                  IN StoreItem(n.heap, widgets, i, n.addr)
     ELSE IF widget_type # "empty"
          THEN LET n == New(h, [type |-> widget_type, slot |-> slot_idx])
               IN AppendItem(n.heap, widgets, n.addr)
          ELSE h

\* the search loop over the copied widget list, and the append after it
update_slot(h, widgets, slot_idx, widget_type) ==
  LET hits == {i \in 1..Len(h[widgets]) : HasSlot(h[h[widgets][i]], slot_idx)}
  IN IF hits # {}
     THEN LET i == Min(hits) - 1
          IN IF widget_type = "empty"
             THEN PopItem(h, widgets, i)
             ELSE LET c == copy_widget(h, h[widgets][i + 1])
                      h1 == StoreItem(c.heap, widgets, i, c.addr)
                  IN Store(h1, h1[widgets][i + 1], "type", widget_type)
     ELSE IF widget_type # "empty"
          THEN LET n == New(h, [type |-> widget_type, slot |-> slot_idx])
               IN AppendItem(n.heap, widgets, n.addr)
          ELSE h

widget_select_option(h, root, screen_idx, slot_idx, option) ==
  IF screen_idx = NoneIndex \/ slot_idx = NoneIndex
  THEN Result(h, root, FALSE, None)
  ELSE
    LET widget_type == KeyOfName(WIDGET_OPTIONS, option)
        c1 == Copy(h, root)
        new_options == c1.addr
        c2 == copy_screens(c1.heap, new_options)
        screens == c2.addr
    IN IF widget_type # None /\ screen_idx < Len(c2.heap[screens])
       THEN LET c3 == Copy(c2.heap, c2.heap[screens][screen_idx + 1])
                screen == c3.addr
                h4 == StoreItem(c3.heap, screens, screen_idx, screen)
                c5 == copy_widgets(h4, screen)
                widgets == c5.addr
                h6 == update_slot(c5.heap, widgets, slot_idx, widget_type)
                h7 == Store(h6, screen, CONF_WIDGETS, widgets)
                h8 == Store(h7, new_options, CONF_SCREENS, screens)
            IN Result(h8, new_options, TRUE, None)
       ELSE \* the copies made so far are dropped unreferenced
            Result(h, root, FALSE, None)

----------------------------------------------------------------------------
(* select.py: async_setup_entry.async_update_entities (entity discovery) *)

\* coordinator.options.get(CONF_SCREENS, [])
screens_of(h, root) ==
  IF CONF_SCREENS \in DOMAIN h[root] THEN h[h[root][CONF_SCREENS]] ELSE <<>>

----------------------------------------------------------------------------
(* select.py: current_option of the layout and the slot widget selectors *)

\* GeekMagicScreenLayoutSelect.options
layout_select_options == {LAYOUT_OPTIONS[i][2] : i \in DOMAIN LAYOUT_OPTIONS}

\* GeekMagicSlotWidgetSelect.options
widget_select_options == {WIDGET_OPTIONS[i][2] : i \in DOMAIN WIDGET_OPTIONS}

\* screens[screen_idx].get(CONF_WIDGETS, [])
widgets_of(h, screen) ==
  IF CONF_WIDGETS \in DOMAIN h[screen] THEN h[h[screen][CONF_WIDGETS]] ELSE <<>>

layout_current_option(h, root, screen_idx) ==
  IF screen_idx = NoneIndex
  THEN None
  ELSE LET screens == screens_of(h, root)
       IN IF screen_idx < Len(screens)
          THEN LET layout == Get(h[screens[screen_idx + 1]], CONF_LAYOUT,
                                 LAYOUT_GRID_2X2)
               IN NameOfKey(LAYOUT_OPTIONS, layout, "Grid 2x2 (4 slots)")
          ELSE None

\* mutant: the widget is looked up by its position in the list
widget_current_option_by_position(h, root, screen_idx, slot_idx) ==
  IF screen_idx = NoneIndex \/ slot_idx = NoneIndex
  THEN None
  ELSE LET screens == screens_of(h, root)
       IN IF screen_idx < Len(screens)
          THEN LET widgets == widgets_of(h, screens[screen_idx + 1])
               IN IF slot_idx < Len(widgets)
                  THEN NameOfKey(WIDGET_OPTIONS,
                                 Get(h[widgets[slot_idx + 1]], "type", "empty"),
                                 "Empty")
                  ELSE "Empty"
          ELSE "Empty"

widget_current_option(h, root, screen_idx, slot_idx) ==
  IF screen_idx = NoneIndex \/ slot_idx = NoneIndex
  THEN None
  ELSE LET screens == screens_of(h, root)
       IN IF screen_idx < Len(screens)
          THEN LET widgets == widgets_of(h, screens[screen_idx + 1])
                   \* for widget in widgets: the first one with this slot
                   hits == {i \in DOMAIN widgets : HasSlot(h[widgets[i]], slot_idx)}
               IN IF hits = {}
                  THEN "Empty"
                  ELSE NameOfKey(WIDGET_OPTIONS,
                                 Get(h[widgets[Min(hits)]], "type", "empty"),
                                 "Empty")
          ELSE "Empty"

\* the entity keys: "current_screen", f"screen_{i+1}_template",
\* f"screen_{i+1}_layout", f"screen_{i+1}_slot_{j+1}_widget"
EntityKey(name, screen_no, slot_no) ==
  [name |-> name, screen |-> screen_no, slot |-> slot_no]

Description(key, select_type, screen_index, slot_index) ==
  [key |-> key, select_type |-> select_type, screen_index |-> screen_index,
   slot_index |-> slot_index]

\* mutant: the last slot of a layout gets no selector
screen_candidates_short(h, screen_idx, screen_config) ==
  LET layout_type == Get(h[screen_config], CONF_LAYOUT, LAYOUT_GRID_2X2)
      slot_count == Get(LAYOUT_SLOT_COUNTS, layout_type, 4)
  IN << Description(EntityKey("screen_template", screen_idx + 1, 0),
                    "template", screen_idx, NoneIndex),
        Description(EntityKey("screen_layout", screen_idx + 1, 0),
                    "layout", screen_idx, NoneIndex) >>
     \o [slot_no \in 1..(slot_count - 1) |->
           Description(EntityKey("screen_slot_widget", screen_idx + 1, slot_no),
                       "widget_type", screen_idx, slot_no - 1)]

\* the entities of one screen, in the order the loop body visits them
screen_candidates(h, screen_idx, screen_config) ==
  LET layout_type == Get(h[screen_config], CONF_LAYOUT, LAYOUT_GRID_2X2)
      slot_count == Get(LAYOUT_SLOT_COUNTS, layout_type, 4)
  IN << Description(EntityKey("screen_template", screen_idx + 1, 0),
                    "template", screen_idx, NoneIndex),
        Description(EntityKey("screen_layout", screen_idx + 1, 0),
                    "layout", screen_idx, NoneIndex) >>
     \o [slot_no \in 1..slot_count |->
           Description(EntityKey("screen_slot_widget", screen_idx + 1, slot_no),
                       "widget_type", screen_idx, slot_no - 1)]

RECURSIVE all_screen_candidates(_, _, _)
all_screen_candidates(h, screens, screen_idx) ==
  IF screen_idx >= Len(screens)
  THEN <<>>
  ELSE screen_candidates(h, screen_idx, screens[screen_idx + 1])
       \o all_screen_candidates(h, screens, screen_idx + 1)

\* every entity the callback considers, in order
candidates(h, root) ==
  << Description(EntityKey("current_screen", 0, 0), "current_screen",
                 NoneIndex, NoneIndex) >>
  \o all_screen_candidates(h, screens_of(h, root), 0)

\* mutant: the key of a created entity is not recorded
remember_key_forgotten(ids, key) == ids

\* current_entity_ids.add(key)
remember_key(ids, key) == ids \cup {key}

\* "if key not in current_entity_ids: add the key, append the entity", for
\* each candidate in turn
RECURSIVE add_missing(_, _, _)
add_missing(ids, entities_to_add, remaining) ==
  IF remaining = <<>>
  THEN [ids |-> ids, entities_to_add |-> entities_to_add]
  ELSE LET d == Head(remaining)
       IN IF d.key \notin ids
          THEN add_missing(remember_key(ids, d.key), Append(entities_to_add, d),
                           Tail(remaining))
          ELSE add_missing(ids, entities_to_add, Tail(remaining))

\* one run of the callback
async_update_entities(ids, h, root) ==
  add_missing(ids, <<>>, candidates(h, root))

----------------------------------------------------------------------------
(* camera.py: GeekMagicPreviewCamera *)

\* an image is a record: its format and which render produced it
NoneImage == [format |-> "none", id |-> 0]
EmptyBytes == [format |-> "empty", id |-> 0]
_PLACEHOLDER_PNG == [format |-> "png", id |-> 0]
\* the render cycle's output (renderer.to_jpeg)
Rendered(n) == [format |-> "jpeg", id |-> n]
\* the value of cam_returned before any call
NotCalled == [format |-> "not called", id |-> 0]

\* __init__: the content type the camera declares for what it serves
content_type == "image/png"
\* the image format a content type names
FormatOfContentType(t) ==
  IF t = "image/png" THEN "png" ELSE IF t = "image/jpeg" THEN "jpeg" ELSE "other"

\* a or b on bytes | None
Truthy(x) == x # NoneImage /\ x # EmptyBytes
Or(a, b) == IF Truthy(a) THEN a ELSE b

\* mutant: no placeholder when no image is ready
async_camera_image_unguarded(last_image, coordinator_last_image) ==
  LET image == Or(last_image, coordinator_last_image)
  IN <<image, IF image # NoneImage THEN image ELSE last_image>>

\* mutant: the coordinator's image is preferred to the cached one
async_camera_image_uncached(last_image, coordinator_last_image) ==
  LET image == Or(coordinator_last_image, last_image)
  IN IF image # NoneImage
     THEN <<image, image>>
     ELSE <<_PLACEHOLDER_PNG, last_image>>

\* returns <<the value returned, the new _last_image>>
async_camera_image(last_image, coordinator_last_image) ==
  LET image == Or(last_image, coordinator_last_image)
  IN IF image # NoneImage
     THEN <<image, image>>
     ELSE <<_PLACEHOLDER_PNG, last_image>>

\* the new _last_image
handle_coordinator_update(last_image, coordinator_last_image) ==
  IF coordinator_last_image # NoneImage THEN coordinator_last_image ELSE last_image

----------------------------------------------------------------------------
(* Initial configurations: what the config flow may have stored.  Each is  *)
(* the sequence of objects to allocate from address b + 1 on; the options  *)
(* mapping is the last object.                                             *)

InitConfigs == {"empty", "one_screen", "two_screens", "templated"}

InitObjects(c, b) ==
  CASE c = "empty" ->
         << <<>> >>
    [] c = "one_screen" ->
         << <<>>,
            [name |-> "Screen 1", layout |-> LAYOUT_GRID_2X2, widgets |-> b + 1],
            << b + 2 >>,
            [screens |-> b + 3, refresh_interval |-> 10] >>
    [] c = "two_screens" ->
         << [show_name |-> TRUE],
            [type |-> "entity", slot |-> 5, entity_id |-> "sensor.office",
             label |-> "Office", options |-> b + 1],
            [type |-> "clock", slot |-> 0],
            << b + 2, b + 3 >>,
            [name |-> "Panel", layout |-> LAYOUT_GRID_2X3, widgets |-> b + 4],
            [name |-> "Bare"],
            << b + 5, b + 6 >>,
            [screens |-> b + 7] >>
    [] c = "five_screens" ->
         \* the second screen has no name of its own, two are both "Home"
         << [name |-> "Home", layout |-> LAYOUT_HERO],
            [layout |-> LAYOUT_GRID_2X2],
            [name |-> "Stats", layout |-> LAYOUT_SPLIT],
            [name |-> "Home", layout |-> LAYOUT_GRID_2X2],
            [name |-> "Night", layout |-> LAYOUT_HERO],
            << b + 1, b + 2, b + 3, b + 4, b + 5 >>,
            [screens |-> b + 6] >>
    [] c = "legacy" ->
         \* a stored layout this version does not know
         << <<>>,
            [name |-> "Old", layout |-> "grid_3x3", widgets |-> b + 1],
            << b + 2 >>,
            [screens |-> b + 3] >>
    [] c = "templated" ->
         \* one screen, as apply_template(0, "thermostat") leaves it
         << [style |-> "arc", min |-> 10, max |-> 35, unit |-> "deg"],
            [type |-> "gauge", slot |-> 0, options |-> b + 1],
            [style |-> "arc", min |-> 0, max |-> 100, unit |-> "%"],
            [type |-> "gauge", slot |-> 1, options |-> b + 3],
            << b + 2, b + 4 >>,
            [name |-> "Thermostat", layout |-> LAYOUT_SPLIT, widgets |-> b + 5],
            << b + 6 >>,
            [screens |-> b + 7] >>

NoCall == [op |-> "none", screen |-> NoneIndex, slot |-> NoneIndex, arg |-> None,
           ret |-> None, updated |-> FALSE]

CamInit ==
  /\ cam_last_image = NoneImage
  /\ cam_added = FALSE
  /\ coord_last_image = NoneImage
  /\ coord_success = TRUE
  /\ n_images = 0
  /\ cam_returned = NotCalled
  /\ cam_step = "none"
  /\ cam_prev = NoneImage

CfgInitWith(c) ==
  /\ heap = TemplateOptionMappings \o InitObjects(c, Len(TemplateOptionMappings))
  /\ options = Len(heap)
  /\ LET d == async_update_entities({}, heap, options)
     IN /\ current_entity_ids = d.ids
        /\ hass_entities = d.entities_to_add
  /\ update_calls = 0
  /\ last_call = NoCall
  /\ prev_call = NoCall
  /\ prev_options = options
  /\ n_calls = 0

NoSelection == [option |-> None, calls |-> <<>>]

ScrInit ==
  /\ current_screen_index = 0
  /\ in_flight = Absent
  /\ pending = Absent
  /\ cycles = <<>>
  /\ set_screen_calls = <<>>
  /\ superseded = 0
  /\ n_polls = 0
  /\ last_select = NoSelection

NoModeCall == [option |-> None, theme |-> NoneIndex, set_theme |-> None,
               ops |-> <<>>, raised |-> None]

ModeInit ==
  /\ device_theme = 3
  /\ device_state = Absent
  /\ refresh_pending = FALSE
  /\ last_mode_call = NoModeCall

NoArgs == [list |-> FALSE, dashboard |-> None, cycle |-> FALSE]

DbgInit ==
  /\ dbg_pc = "main"
  /\ dbg_args = NoArgs
  /\ dbg_idx = 0
  /\ dbg_ops = <<>>
  /\ dbg_exit = None

\* the parts beside the configuration, as they start
PartsInit == CamInit /\ ScrInit /\ ModeInit /\ DbgInit

Init == (\E c \in InitConfigs : CfgInitWith(c)) /\ PartsInit

----------------------------------------------------------------------------
(* Inputs *)

LayoutInputs == {LAYOUT_OPTIONS[i][2] : i \in DOMAIN LAYOUT_OPTIONS} \cup {"Bogus"}
WidgetInputs == {"Empty", "Gauge", "Bogus"}
TemplateInputs == {"Custom", "Clock Dashboard", "Smart Home", "Bogus"}
ApplyKeyInputs == {"clock", "thermostat", "custom", "bogus"}
\* the slot selectors the user operates
SlotInputs == {0, 1, 5}

----------------------------------------------------------------------------
(* Actions *)

Finish(r, call) ==
  /\ heap' = r.heap
  /\ options' = r.options
  /\ update_calls' = update_calls + (IF r.updated THEN 1 ELSE 0)
  /\ last_call' = [call EXCEPT !.ret = r.ret, !.updated = r.updated]
  /\ prev_call' = last_call
  /\ prev_options' = options
  /\ n_calls' = n_calls + 1
  /\ UNCHANGED <<current_entity_ids, hass_entities, outside_cfg>>

SelectLayout ==
  /\ n_calls < MaxCalls
  /\ \E i \in DOMAIN hass_entities : \E option \in LayoutInputs :
       LET e == hass_entities[i]
       IN /\ e.select_type = "layout"
          /\ Finish(layout_select_option(heap, options, e.screen_index, option),
                    [NoCall EXCEPT !.op = "set_layout", !.screen = e.screen_index,
                                   !.arg = option])

SelectWidget ==
  /\ n_calls < MaxCalls
  /\ \E i \in DOMAIN hass_entities : \E option \in WidgetInputs :
       LET e == hass_entities[i]
       IN /\ e.select_type = "widget_type"
          /\ e.slot_index \in SlotInputs
          /\ Finish(widget_select_option(heap, options, e.screen_index,
                                         e.slot_index, option),
                    [NoCall EXCEPT !.op = "set_widget", !.screen = e.screen_index,
                                   !.slot = e.slot_index, !.arg = option])

SelectTemplate ==
  /\ n_calls < MaxCalls
  /\ \E i \in DOMAIN hass_entities : \E option \in TemplateInputs :
       LET e == hass_entities[i]
       IN /\ e.select_type = "template"
          /\ Finish(template_select_option(heap, options, e.screen_index, option),
                    [NoCall EXCEPT !.op = "select_template",
                                   !.screen = e.screen_index, !.arg = option])

ApplyTemplate ==
  /\ n_calls < MaxCalls
  /\ \E screen_index \in 0..MaxScreenIndex : \E template_key \in ApplyKeyInputs :
       Finish(apply_template(heap, options, screen_index, template_key),
              [NoCall EXCEPT !.op = "apply_template", !.screen = screen_index,
                             !.arg = template_key])

\* the options flow stores another configuration
OptionsFlow ==
  /\ n_calls < MaxCalls
  /\ \E c \in InitConfigs :
       /\ heap' = heap \o InitObjects(c, Len(heap))
       /\ options' = Len(heap')
       /\ last_call' = [NoCall EXCEPT !.op = "options_flow", !.arg = c]
       /\ prev_call' = last_call
       /\ prev_options' = options
  /\ n_calls' = n_calls + 1
  /\ UNCHANGED <<current_entity_ids, hass_entities, update_calls, outside_cfg>>

\* a coordinator notification runs the discovery callback
Discover ==
  LET d == async_update_entities(current_entity_ids, heap, options)
  IN /\ d.entities_to_add # <<>>
     /\ current_entity_ids' = d.ids
     /\ hass_entities' = hass_entities \o d.entities_to_add
     /\ UNCHANGED <<heap, options, update_calls, last_call, prev_call,
                     prev_options, n_calls, outside_cfg>>

Next == SelectLayout \/ SelectWidget \/ SelectTemplate \/ ApplyTemplate
        \/ OptionsFlow \/ Discover

Spec == Init /\ [][Next]_vars

\* the same operations from configurations that include a stored layout
\* outside LAYOUT_SLOT_COUNTS
DiscoveryConfigs == {"empty", "one_screen", "legacy"}

DiscoveryInit == (\E c \in DiscoveryConfigs : CfgInitWith(c)) /\ PartsInit

----------------------------------------------------------------------------
(* The layout and slot widget selectors, each with every option it offers *)

PickLayout ==
  /\ n_calls < MaxPicks
  /\ \E i \in DOMAIN hass_entities : \E option \in layout_select_options :
       LET e == hass_entities[i]
       IN /\ e.select_type = "layout"
          /\ Finish(layout_select_option(heap, options, e.screen_index, option),
                    [NoCall EXCEPT !.op = "set_layout", !.screen = e.screen_index,
                                   !.arg = option])

PickWidget ==
  /\ n_calls < MaxPicks
  /\ \E i \in DOMAIN hass_entities : \E option \in widget_select_options :
       LET e == hass_entities[i]
       IN /\ e.select_type = "widget_type"
          /\ Finish(widget_select_option(heap, options, e.screen_index,
                                         e.slot_index, option),
                    [NoCall EXCEPT !.op = "set_widget", !.screen = e.screen_index,
                                   !.slot = e.slot_index, !.arg = option])

SelectorNext == PickLayout \/ PickWidget

SelectorConfigs == {"one_screen", "two_screens", "templated"}

SelectorInit == (\E c \in SelectorConfigs : CfgInitWith(c)) /\ PartsInit

SelectorSpec == SelectorInit /\ [][SelectorNext]_vars

DiscoverySpec == DiscoveryInit /\ [][Next]_vars

----------------------------------------------------------------------------
(* The preview camera and the coordinator that feeds it *)

\* what every camera or coordinator step records
CamStep(step) ==
  /\ cam_step' = step
  /\ cam_prev' = cam_last_image

AddedToHass ==
  /\ ~cam_added
  /\ CamStep("added")
  /\ cam_added' = TRUE
  /\ cam_last_image' = coord_last_image
  /\ UNCHANGED <<coord_last_image, coord_success, n_images, cam_returned, outside_cam>>

\* listeners run synchronously after the coordinator has published its state
NotifyCamera(published) ==
  cam_last_image' = IF cam_added
                    THEN handle_coordinator_update(cam_last_image, published)
                    ELSE cam_last_image

\* a render+upload cycle that succeeds
CycleSucceeds ==
  /\ n_images < MaxImages
  /\ n_images' = n_images + 1
  /\ coord_last_image' = Rendered(n_images + 1)
  /\ coord_success' = TRUE
  /\ NotifyCamera(coord_last_image')
  /\ CamStep("cycle_ok")
  /\ UNCHANGED <<cam_added, cam_returned, outside_cam>>

\* a cycle that fails: the previous image is retained
CycleFails ==
  /\ coord_success' = FALSE
  /\ NotifyCamera(coord_last_image)
  /\ CamStep("cycle_failed")
  /\ UNCHANGED <<coord_last_image, n_images, cam_added, cam_returned, outside_cam>>

CameraImage ==
  LET r == async_camera_image(cam_last_image, coord_last_image)
  IN /\ cam_returned' = r[1]
     /\ cam_last_image' = r[2]
     /\ CamStep("image")
     /\ UNCHANGED <<cam_added, coord_last_image, coord_success, n_images, outside_cam>>

CamNext == AddedToHass \/ CycleSucceeds \/ CycleFails \/ CameraImage

\* the camera is set up beside a configuration that stays as it is
CamSpecInit == CfgInitWith("one_screen") /\ PartsInit

CamSpec == CamSpecInit /\ [][CamNext]_vars

----------------------------------------------------------------------------
(* select.py: GeekMagicCurrentScreenSelect *)

\* screen.get("name", f"Screen {i + 1}"), i counted from 0
screen_option_name(h, screens, i) ==
  Get(h[screens[i + 1]], "name", ScreenN(i + 1))

\* the indexes of the screens an option names
MatchingScreens(h, root, option) ==
  LET screens == screens_of(h, root)
  IN {i \in 0..(Len(screens) - 1) : screen_option_name(h, screens, i) = option}

\* the options property: the screens' names, or ["Screen 1"] without screens
current_screen_options(h, root) ==
  LET screens == screens_of(h, root)
      names == [k \in 1..Len(screens) |-> screen_option_name(h, screens, k - 1)]
  IN IF names # <<>> THEN names ELSE <<"Screen 1">>

RECURSIVE Ascending(_)
Ascending(S) == IF S = {} THEN <<>> ELSE <<Min(S)>> \o Ascending(S \ {Min(S)})

\* mutant: the loop goes on after the first match
current_screen_select_option_no_break(h, root, option) ==
  Ascending(MatchingScreens(h, root, option))

\* async_select_option: the arguments of its async_set_screen calls, in order
current_screen_select_option(h, root, option) ==
  LET hits == MatchingScreens(h, root, option)
  IN IF hits = {} THEN <<>> ELSE <<Min(hits)>>

----------------------------------------------------------------------------
(* The coordinator's screen selection and its cycles (spec 4.6, 5 and 9):  *)
(* at most one cycle runs; a request that arrives while one is running     *)
(* sets the pending marker, and when the running cycle is over one more    *)
(* cycle starts at once with the latest parameters.                        *)

CoordinatorState ==
  [current_screen_index |-> current_screen_index, in_flight |-> in_flight,
   pending |-> pending, cycles |-> cycles, set_screen_calls |-> set_screen_calls,
   superseded |-> superseded]

SetCoordinatorState(c) ==
  /\ current_screen_index' = c.current_screen_index
  /\ in_flight' = c.in_flight
  /\ pending' = c.pending
  /\ cycles' = c.cycles
  /\ set_screen_calls' = c.set_screen_calls
  /\ superseded' = c.superseded

Cycle(trigger, index, phase) == [trigger |-> trigger, index |-> index, phase |-> phase]
Started(cycle) == [trigger |-> cycle.trigger, index |-> cycle.index]

\* index clamped into the range of n screens
clamp_index(index, n) ==
  IF n = 0 \/ index < 0 THEN 0 ELSE IF index >= n THEN n - 1 ELSE index

\* starts an immediate Render+Upload
start_render(c, trigger, index) ==
  [c EXCEPT !.in_flight = Some(Cycle(trigger, index, "render")),
            !.cycles = Append(@, Started(Cycle(trigger, index, "render")))]

async_set_screen(c, index, n) ==
  LET i == clamp_index(index, n)
      d == [c EXCEPT !.current_screen_index = i,
                     !.set_screen_calls = Append(@, index)]
  IN IF c.in_flight = Absent
     THEN start_render(d, "set_screen", i)
     ELSE [d EXCEPT !.pending = Some(i),
                    !.superseded = @ + (IF c.pending # Absent THEN 1 ELSE 0)]

\* the running cycle is over
cycle_over(c) ==
  IF c.pending = Absent
  THEN [c EXCEPT !.in_flight = Absent]
  ELSE start_render([c EXCEPT !.pending = Absent], "set_screen", c.pending[1])

\* the calls one selection makes, one after the other
RECURSIVE set_screens(_, _, _)
set_screens(c, calls, n) ==
  IF calls = <<>> THEN c
  ELSE set_screens(async_set_screen(c, Head(calls), n), Tail(calls), n)

ScreenConfigs == {"five_screens", "empty"}
ScreenInputs == {"Home", "Screen 1", "Screen 2", "Stats", "Bogus"}
IndexInputs == {-1, 2, 7}

SelectScreen ==
  /\ Len(set_screen_calls) < MaxSetScreen
  /\ \E e \in Range(hass_entities) : e.select_type = "current_screen"
  /\ \E option \in ScreenInputs :
       LET calls == current_screen_select_option(heap, options, option)
       IN /\ SetCoordinatorState(set_screens(CoordinatorState, calls,
                                             Len(screens_of(heap, options))))
          /\ last_select' = [option |-> option, calls |-> calls]
  /\ UNCHANGED <<n_polls, outside_scr>>

\* the set_screen entry point called directly
SetScreen ==
  /\ Len(set_screen_calls) < MaxSetScreen
  /\ \E index \in IndexInputs :
       SetCoordinatorState(async_set_screen(CoordinatorState, index,
                                            Len(screens_of(heap, options))))
  /\ UNCHANGED <<n_polls, last_select, outside_scr>>

\* the poll timer fires; it waits for the prior cycle to finish
PollTick ==
  /\ n_polls < MaxPolls
  /\ in_flight = Absent
  /\ n_polls' = n_polls + 1
  /\ in_flight' = Some(Cycle("poll", current_screen_index, "polling"))
  /\ UNCHANGED <<current_screen_index, pending, cycles, set_screen_calls,
                 superseded, last_select, outside_scr>>

\* get_state() succeeded: Render+Upload of the polled screen
StateFetched ==
  /\ in_flight # Absent
  /\ in_flight[1].phase = "polling"
  /\ SetCoordinatorState(start_render(CoordinatorState, "poll", in_flight[1].index))
  /\ UNCHANGED <<n_polls, last_select, outside_scr>>

\* get_state() failed
StateFetchFails ==
  /\ in_flight # Absent
  /\ in_flight[1].phase = "polling"
  /\ SetCoordinatorState(cycle_over(CoordinatorState))
  /\ UNCHANGED <<n_polls, last_select, outside_scr>>

\* Render+Upload completed or failed
CycleEnds ==
  /\ in_flight # Absent
  /\ in_flight[1].phase = "render"
  /\ SetCoordinatorState(cycle_over(CoordinatorState))
  /\ UNCHANGED <<n_polls, last_select, outside_scr>>

ScreenNext == SelectScreen \/ SetScreen \/ PollTick \/ StateFetched
              \/ StateFetchFails \/ CycleEnds

ScreenSpecInit == (\E c \in ScreenConfigs : CfgInitWith(c)) /\ PartsInit

ScreenSpec == ScreenSpecInit /\ [][ScreenNext]_vars

----------------------------------------------------------------------------
(* entities/select.py: GeekMagicModeSelect *)

DEVICE_MODES ==
  [custom |-> "Custom Views", clock |-> "Clock", weather |-> "Weather",
   system |-> "System Info"]

\* the options property
mode_options == {DEVICE_MODES[k] : k \in DOMAIN DEVICE_MODES}

\* mutant: theme 0 is not told apart from the custom mode
mode_current_option_no_clock(state) ==
  IF state # Absent
  THEN LET theme == state[1].theme
       IN IF theme = 3 THEN DEVICE_MODES["custom"]
          ELSE IF theme = 1 THEN DEVICE_MODES["weather"]
          ELSE IF theme = 2 THEN DEVICE_MODES["system"]
          ELSE DEVICE_MODES["custom"]
  ELSE DEVICE_MODES["custom"]

\* current_option, on coordinator.device_state
mode_current_option(state) ==
  IF state # Absent
  THEN LET theme == state[1].theme
       IN IF theme = 3 THEN DEVICE_MODES["custom"]
          ELSE IF theme = 0 THEN DEVICE_MODES["clock"]
          ELSE IF theme = 1 THEN DEVICE_MODES["weather"]
          ELSE IF theme = 2 THEN DEVICE_MODES["system"]
          ELSE DEVICE_MODES["custom"]
  ELSE DEVICE_MODES["custom"]

\* theme_map.get(option, 3)
theme_map ==
  << <<DEVICE_MODES["custom"], 3>>, <<DEVICE_MODES["clock"], 0>>,
     <<DEVICE_MODES["weather"], 1>>, <<DEVICE_MODES["system"], 2>> >>

theme_of_option(option) ==
  LET hits == {i \in DOMAIN theme_map : theme_map[i][1] = option}
  IN IF hits = {} THEN 3 ELSE theme_map[Min(hits)][2]

\* async_select_option, set_theme ending as outcome says: what the handler
\* did, in order, and what it raised
\* mutant: a failure of set_theme is caught and the refresh requested anyway
mode_select_option_swallowed(option, outcome) ==
  [option |-> option, theme |-> theme_of_option(option), set_theme |-> outcome,
   ops |-> <<"set_theme", "async_request_refresh">>, raised |-> None]

\* outcome is what the awaited set_theme does: it returns ("ok") or raises;
\* nothing here catches, so what it raises leaves the handler before the
\* refresh is requested
mode_select_option(option, outcome) ==
  LET theme == theme_of_option(option)
  IN IF outcome = "ok"
     THEN [option |-> option, theme |-> theme, set_theme |-> outcome,
           ops |-> <<"set_theme", "async_request_refresh">>, raised |-> None]
     ELSE [option |-> option, theme |-> theme, set_theme |-> outcome,
           ops |-> <<"set_theme">>, raised |-> outcome]

ModeInputs == mode_options \cup {"Bogus"}
\* how a set_theme call can end
SetThemeOutcomes == {"ok", "DeviceUnreachable", "DeviceRejected"}
\* the themes the device can be switched to by hand
DeviceThemes == {0, 1, 2, 3, 5}

SelectMode ==
  /\ \E option \in ModeInputs : \E outcome \in SetThemeOutcomes :
       LET r == mode_select_option(option, outcome)
       IN /\ last_mode_call' = r
          /\ device_theme' = IF outcome = "ok" THEN r.theme ELSE device_theme
          /\ refresh_pending' =
               (refresh_pending \/ "async_request_refresh" \in Range(r.ops))
  /\ UNCHANGED <<device_state, outside_mode>>

\* a refresh or a timer poll fetches the device state
StateRefreshed ==
  /\ device_state' = Some([theme |-> device_theme])
  /\ refresh_pending' = FALSE
  /\ UNCHANGED <<device_theme, last_mode_call, outside_mode>>

\* the fetch fails: the state fetched before stays
StateRefreshFails ==
  /\ refresh_pending' = FALSE
  /\ UNCHANGED <<device_theme, device_state, last_mode_call, outside_mode>>

\* the theme is changed on the device itself
DeviceThemeChanged ==
  /\ \E theme \in DeviceThemes : device_theme' = theme
  /\ UNCHANGED <<device_state, refresh_pending, last_mode_call, outside_mode>>

ModeNext == SelectMode \/ StateRefreshed \/ StateRefreshFails \/ DeviceThemeChanged

ModeSpecInit == CfgInitWith("one_screen") /\ PartsInit

ModeSpec == ModeSpecInit /\ [][ModeNext]_vars

----------------------------------------------------------------------------
(* scripts/debug_render.py: main *)

\* list(DASHBOARDS.keys())
dashboard_keys == <<"system_monitor", "clock", "fitness", "server_stats", "energy">>

DeviceOp(op, arg) == [op |-> op, arg |-> arg]

\* mutant: close() only where the try block runs to its end
exit_try_unguarded(reason) ==
  IF reason \in {"end", "interrupt"}
  THEN [pc |-> "finally", exit |-> reason]
  ELSE [pc |-> "done", exit |-> reason]

\* leaving the try block, by its end, a return, a KeyboardInterrupt or
\* another exception: the finally clause runs
exit_try(reason) == [pc |-> "finally", exit |-> reason]

LeaveTry(reason) ==
  /\ dbg_pc' = exit_try(reason).pc
  /\ dbg_exit' = exit_try(reason).exit

\* the dashboard the next upload renders
dashboard_to_render ==
  IF dbg_args.dashboard # None THEN dbg_args.dashboard
  ELSE IF dbg_args.cycle
       THEN dashboard_keys[(dbg_idx % Len(dashboard_keys)) + 1]
       ELSE "system_monitor"

ArgInputs ==
  [list : BOOLEAN, dashboard : {None, "clock", "energy"}, cycle : BOOLEAN]
\* how a device operation can end
OpOutcomes == {"ok", "raises"}

\* parse_args; --list returns before the device client is created
ParseArgs ==
  /\ dbg_pc = "main"
  /\ \E args \in ArgInputs :
       /\ dbg_args' = args
       /\ dbg_pc' = IF args.list THEN "done" ELSE "test_connection"
  /\ UNCHANGED <<dbg_idx, dbg_ops, dbg_exit, outside_dbg>>

TestConnection ==
  /\ dbg_pc = "test_connection"
  /\ dbg_ops' = Append(dbg_ops, DeviceOp("test_connection", None))
  /\ \E outcome \in {"true", "false", "raises"} :
       IF outcome = "true" THEN dbg_pc' = "get_state" /\ dbg_exit' = dbg_exit
       ELSE IF outcome = "false" THEN LeaveTry("return")
       ELSE LeaveTry("raised")
  /\ UNCHANGED <<dbg_args, dbg_idx, outside_dbg>>

GetState ==
  /\ dbg_pc = "get_state"
  /\ dbg_ops' = Append(dbg_ops, DeviceOp("get_state", None))
  /\ \E outcome \in OpOutcomes :
       IF outcome = "ok" THEN dbg_pc' = "upload" /\ dbg_exit' = dbg_exit
       ELSE LeaveTry("raised")
  /\ UNCHANGED <<dbg_args, dbg_idx, outside_dbg>>

\* render and upload_and_display, in each of the three branches
Upload ==
  /\ dbg_pc = "upload"
  /\ dbg_ops' = Append(dbg_ops, DeviceOp("upload_and_display", dashboard_to_render))
  /\ \E outcome \in OpOutcomes :
       IF outcome = "raises"
       THEN LeaveTry("raised") /\ dbg_idx' = dbg_idx
       ELSE IF dbg_args.dashboard = None /\ dbg_args.cycle
            THEN dbg_pc' = "sleep" /\ dbg_idx' = dbg_idx + 1 /\ dbg_exit' = dbg_exit
            ELSE LeaveTry("end") /\ dbg_idx' = dbg_idx
  /\ UNCHANGED <<dbg_args, outside_dbg>>

\* asyncio.sleep(args.interval) of the cycle loop
Sleep ==
  /\ dbg_pc = "sleep"
  /\ dbg_idx < MaxUploads
  /\ dbg_pc' = "upload"
  /\ UNCHANGED <<dbg_args, dbg_idx, dbg_ops, dbg_exit, outside_dbg>>

\* Ctrl+C while the try block runs
Interrupt ==
  /\ dbg_pc \in {"test_connection", "get_state", "upload", "sleep"}
  /\ LeaveTry("interrupt")
  /\ UNCHANGED <<dbg_args, dbg_idx, dbg_ops, outside_dbg>>

\* finally: await device.close()
Close ==
  /\ dbg_pc = "finally"
  /\ dbg_ops' = Append(dbg_ops, DeviceOp("close", None))
  /\ dbg_pc' = "done"
  /\ UNCHANGED <<dbg_args, dbg_idx, dbg_exit, outside_dbg>>

DbgNext == ParseArgs \/ TestConnection \/ GetState \/ Upload \/ Sleep
           \/ Interrupt \/ Close

DbgSpecInit == CfgInitWith("one_screen") /\ PartsInit

DbgSpec == DbgSpecInit /\ [][DbgNext]_vars

----------------------------------------------------------------------------
(* Views of the configuration used by the properties *)

\* the addresses of the screens' mappings, in list order
ScreenAddrs(h, root) == screens_of(h, root)

\* the addresses of a screen's widgets, in list order
WidgetAddrs(h, screen) ==
  IF CONF_WIDGETS \in DOMAIN h[screen] THEN h[h[screen][CONF_WIDGETS]] ELSE <<>>

\* a widget by value: its options address replaced by the mapping it names
WidgetValue(h, w) ==
  [k \in DOMAIN h[w] |-> IF k = "options" THEN h[h[w][k]] ELSE h[w][k]]

WidgetValues(h, screen) ==
  LET ws == WidgetAddrs(h, screen)
  IN [i \in 1..Len(ws) |-> WidgetValue(h, ws[i])]

\* a Screen by value: name, layout and widget list
ScreenValue(h, screen) ==
  [name |-> Get(h[screen], "name", None),
   layout |-> Get(h[screen], CONF_LAYOUT, None),
   widgets |-> WidgetValues(h, screen)]

\* the slot count of a screen's current layout
SlotCountOf(h, screen) ==
  LAYOUT_SLOT_COUNTS[Get(h[screen], CONF_LAYOUT, LAYOUT_GRID_2X2)]

\* the template key a call asked for
TemplateKeyOfCall(call) ==
  IF call.op = "apply_template" THEN call.arg
  ELSE KeyOfName(TEMPLATE_OPTIONS, call.arg)

\* the last call applied template key to screen_index, and updated the entry
Applied(call, screen_index, key) ==
  /\ call.op \in {"apply_template", "select_template"}
  /\ call.updated
  /\ call.screen = screen_index
  /\ TemplateKeyOfCall(call) = key

----------------------------------------------------------------------------
(* C1: after template "clock" has been applied to screen 0, that screen's  *)
(* layout is the hero layout and it holds exactly 4 widgets, at slots 0,   *)
(* 1, 2 and 3 in that order, none of them carrying a "label" key.          *)

C1_ClockTemplate ==
  Applied(last_call, 0, "clock") =>
    LET screen == ScreenAddrs(heap, options)[1]
        ws == WidgetAddrs(heap, screen)
    IN /\ heap[screen][CONF_LAYOUT] = LAYOUT_HERO
       /\ Len(ws) = 4
       /\ \A i \in 1..Len(ws) :
            /\ heap[ws[i]]["slot"] = i - 1
            /\ "label" \notin DOMAIN heap[ws[i]]

\* clock has been applied to a screen 0 that held a labelled widget before
C1_Witness ==
  /\ Applied(last_call, 0, "clock")
  /\ Len(ScreenAddrs(heap, prev_options)) > 0
  /\ \E w \in Range(WidgetAddrs(heap, ScreenAddrs(heap, prev_options)[1])) :
       "label" \in DOMAIN heap[w]

OneWidgetPerSlot(h, screen) ==
  LET ws == WidgetAddrs(h, screen)
  IN \A i, j \in 1..Len(ws) :
       (i # j /\ "slot" \in DOMAIN h[ws[i]] /\ "slot" \in DOMAIN h[ws[j]])
         => h[ws[i]]["slot"] # h[ws[j]]["slot"]

(* C2: each screen of the configuration holds at most one widget per slot  *)
(* index.                                                                  *)

C2_OneWidgetPerSlot ==
  \A s \in Range(ScreenAddrs(heap, options)) : OneWidgetPerSlot(heap, s)

\* a widget type was selected for a slot that already held a widget, on a
\* screen with another widget beside it
C2_Witness ==
  /\ last_call.op = "set_widget" /\ last_call.updated
  /\ last_call.arg = "Gauge"
  /\ \E s \in Range(ScreenAddrs(heap, options)) :
       /\ Len(WidgetAddrs(heap, s)) = 2
       /\ \E w \in Range(WidgetAddrs(heap, s)) :
            /\ heap[w]["slot"] = last_call.slot
            /\ heap[w]["type"] = "gauge"
            /\ "label" \in DOMAIN heap[w]

(* C3: every widget's slot index is smaller than the slot count of its     *)
(* screen's current layout.                                                *)

C3_SlotWithinLayout ==
  \A s \in Range(ScreenAddrs(heap, options)) :
    \A w \in Range(WidgetAddrs(heap, s)) :
      "slot" \in DOMAIN heap[w] => heap[w]["slot"] < SlotCountOf(heap, s)

\* the screens of the configuration before the last call
PrevScreenAddrs == ScreenAddrs(heap, prev_options)

(* C4: a configuration mutation never modifies an object that existed      *)
(* before it (options mapping, screen list, screen mappings, widget lists, *)
(* widget mappings): every old address keeps its value, and a changed      *)
(* configuration is a newly allocated options mapping.                     *)

C4_ReplaceByValue ==
  [][ /\ \A a \in DOMAIN heap : a \in DOMAIN heap' /\ heap'[a] = heap[a]
      /\ options' # options => options' \notin DOMAIN heap ]_vars

\* a slot's widget changed type: the previous configuration still shows the
\* old type, the new one the new type
C4_Witness ==
  /\ last_call.op = "set_widget" /\ last_call.updated
  /\ last_call.screen < Len(PrevScreenAddrs)
  /\ \E old \in Range(WidgetAddrs(heap, PrevScreenAddrs[last_call.screen + 1])) :
     \E new \in Range(WidgetAddrs(heap, ScreenAddrs(heap, options)[last_call.screen + 1])) :
       /\ heap[old]["slot"] = last_call.slot
       /\ heap[new]["slot"] = last_call.slot
       /\ heap[old]["type"] # heap[new]["type"]

(* C5: applying the same template to the same screen twice in a row leaves *)
(* the screen, by value (name, layout, widget list), as the first          *)
(* application left it.                                                    *)

C5_ApplyIdempotent ==
  [][ ( /\ n_calls' = n_calls + 1
        /\ last_call.op \in {"apply_template", "select_template"}
        /\ last_call.updated
        /\ last_call' = last_call )
      => ScreenValue(heap', ScreenAddrs(heap', options')[last_call.screen + 1])
           = ScreenValue(heap, ScreenAddrs(heap, options)[last_call.screen + 1]) ]_vars

\* the same template has just been applied to the same screen a second time
C5_Witness ==
  /\ last_call.op \in {"apply_template", "select_template"}
  /\ last_call.updated
  /\ prev_call = last_call

\* the widgets of the configuration that have options, as <<screen, widget>>
WidgetsWithOptions(h, root) ==
  LET screens == ScreenAddrs(h, root)
  IN {p \in UNION {{<<i, j>> : j \in 1..Len(WidgetAddrs(h, screens[i]))} :
                     i \in 1..Len(screens)} :
        "options" \in DOMAIN h[WidgetAddrs(h, screens[p[1]])[p[2]]]}

OptionsAddrOf(h, root, p) ==
  h[WidgetAddrs(h, ScreenAddrs(h, root)[p[1]])[p[2]]]["options"]

(* C6: the catalog's option mappings keep their values, no widget of the   *)
(* configuration holds a catalog mapping, and no options mapping is held   *)
(* by two widgets, of the same screen or of two screens.                   *)

C6_OptionsNotAliased ==
  /\ \A a \in TemplateAddrs : heap[a] = TemplateOptionMappings[a]
  /\ \A p \in WidgetsWithOptions(heap, options) :
       OptionsAddrOf(heap, options, p) \notin TemplateAddrs
  /\ LET holders == WidgetsWithOptions(heap, options)
     IN Cardinality({OptionsAddrOf(heap, options, p) : p \in holders})
          = Cardinality(holders)

\* two screens built from the same template
C6_Witness ==
  /\ Applied(last_call, 1, "clock")
  /\ Applied(prev_call, 0, "clock")
  /\ Cardinality(WidgetsWithOptions(heap, options)) = 8

TemplateWidgetValues(template) ==
  [j \in 1..Len(template.widgets) |->
     [type |-> template.widgets[j].type,
      slot |-> template.widgets[j].slot,
      options |-> TemplateOptionMappings[template.widgets[j].options]]]

(* C7: applying a template gives the screen the template's layout and      *)
(* exactly the template's widgets (type, slot, options by value), all of   *)
(* them new objects, and the template's name when it has one, else the     *)
(* name the screen had.                                                    *)

C7_TemplateReplacesScreen ==
  [][ ( /\ n_calls' = n_calls + 1
        /\ last_call'.op \in {"apply_template", "select_template"}
        /\ last_call'.updated )
      => LET i == last_call'.screen
             template == SCREEN_TEMPLATES[TemplateKeyOfCall(last_call')]
             new == ScreenAddrs(heap', options')[i + 1]
             old_screens == ScreenAddrs(heap, options)
         IN /\ heap'[new][CONF_LAYOUT] = template.layout
            /\ WidgetValues(heap', new) = TemplateWidgetValues(template)
            /\ \A w \in Range(WidgetAddrs(heap', new)) : w \notin DOMAIN heap
            /\ heap'[new]["name"] =
                 IF "name" \in DOMAIN template THEN template.name
                 ELSE IF i < Len(old_screens)
                      THEN Get(heap[old_screens[i + 1]], "name", None)
                      ELSE ScreenN(i + 1) ]_vars

\* a template was applied to a screen that had widgets and another name
C7_Witness ==
  /\ last_call.op \in {"apply_template", "select_template"}
  /\ last_call.updated
  /\ last_call.screen < Len(PrevScreenAddrs)
  /\ LET old == PrevScreenAddrs[last_call.screen + 1]
         new == ScreenAddrs(heap, options)[last_call.screen + 1]
     IN /\ Len(WidgetAddrs(heap, old)) > 0
        /\ "name" \in DOMAIN heap[old]
        /\ heap[old]["name"] # heap[new]["name"]

(* C8: apply_template with a key that is not in the catalog returns False, *)
(* issues no config-entry update and leaves the configuration as it was;   *)
(* with a key of the catalog it updates and returns True; get_template is  *)
(* absent for exactly the keys not in the catalog.                         *)

C8_UnknownTemplateRejected ==
  [][ /\ ( /\ n_calls' = n_calls + 1
           /\ last_call'.op = "apply_template"
           /\ last_call'.arg \notin DOMAIN SCREEN_TEMPLATES )
         => /\ last_call'.ret = "False"
            /\ update_calls' = update_calls
            /\ options' = options
            /\ heap' = heap
      /\ ( /\ n_calls' = n_calls + 1
           /\ last_call'.op = "apply_template"
           /\ last_call'.arg \in DOMAIN SCREEN_TEMPLATES )
         => /\ last_call'.ret = "True"
            /\ update_calls' = update_calls + 1
      /\ \A k \in ApplyKeyInputs \cup DOMAIN SCREEN_TEMPLATES :
           (get_template(k) = Absent) <=> (k \notin DOMAIN SCREEN_TEMPLATES) ]_vars

\* an unknown key was given after a change that did go through
C8_Witness ==
  /\ last_call.op = "apply_template"
  /\ last_call.arg = "bogus"
  /\ last_call.ret = "False"
  /\ prev_call.updated

LayoutNames == {LAYOUT_OPTIONS[i][2] : i \in DOMAIN LAYOUT_OPTIONS}
WidgetNames == {WIDGET_OPTIONS[i][2] : i \in DOMAIN WIDGET_OPTIONS}

Invalid(call, screens) ==
  \/ call.op = "set_layout" /\ call.arg \notin LayoutNames
  \/ call.op = "set_widget" /\ call.arg \notin WidgetNames
  \/ call.op \in {"set_layout", "set_widget"} /\ call.screen >= Len(screens)

(* C9: a layout or widget selection with an option that names no layout /  *)
(* no widget type, or on a screen index that is not in the screen list,    *)
(* issues no config-entry update and leaves the configuration as it was.   *)

C9_InvalidSelectionRejected ==
  [][ (n_calls' = n_calls + 1 /\ Invalid(last_call', ScreenAddrs(heap, options)))
      => /\ update_calls' = update_calls
         /\ options' = options
         /\ heap' = heap ]_vars

\* a known layout was selected on a screen the list no longer has
C9_Witness ==
  /\ last_call.op = "set_layout"
  /\ last_call.arg \in LayoutNames
  /\ last_call.screen >= Len(ScreenAddrs(heap, options))
  /\ ~last_call.updated

(* C10: async_camera_image returns the cached image when there is one,     *)
(* else the coordinator's image when there is one, else the placeholder;   *)
(* the value returned is never None.                                       *)

C10_AlwaysAnImage ==
  [][ /\ cam_returned' \notin {NoneImage, EmptyBytes}
      /\ cam_step' = "image"
         => cam_returned' =
              IF cam_last_image # NoneImage THEN cam_last_image
              ELSE IF coord_last_image # NoneImage THEN coord_last_image
              ELSE _PLACEHOLDER_PNG ]_vars

\* the placeholder was returned; later the coordinator published an image
C10_Witness ==
  /\ cam_returned = _PLACEHOLDER_PNG
  /\ coord_last_image # NoneImage

(* C11: a failing update cycle leaves last_update_success false and keeps  *)
(* the image published before it; once the camera holds a real image it    *)
(* never loses it (whatever the coordinator notifies), and every           *)
(* async_camera_image call from then on returns the image the camera       *)
(* obtained last, never the placeholder.                                   *)

IsSetScreenCycle(cycle) == cycle.trigger = "set_screen"
SetScreenCycles == SelectSeq(cycles, IsSetScreenCycle)
NumScreens == Len(screens_of(heap, options))

(* C12: after async_set_screen(i), current_screen_index reads back as i    *)
(* clamped into range whatever polls are running or finish later; every    *)
(* call gets one Render+Upload cycle of its own, using that index, started *)
(* at once or as soon as the running cycle is over (a request replaced by  *)
(* a later one while it waits is the only one without a cycle); and one    *)
(* selection of an option naming a configured screen issues exactly one    *)
(* async_set_screen call, with the index of the first screen of that name, *)
(* while an option naming no screen issues none.                           *)

C12_SetScreen ==
  /\ set_screen_calls # <<>>
       => current_screen_index =
            clamp_index(set_screen_calls[Len(set_screen_calls)], NumScreens)
  /\ Len(SetScreenCycles) + (IF pending # Absent THEN 1 ELSE 0) + superseded
       = Len(set_screen_calls)
  /\ superseded = 0
       => \A k \in DOMAIN SetScreenCycles :
            SetScreenCycles[k].index = clamp_index(set_screen_calls[k], NumScreens)
  /\ pending # Absent
       => in_flight # Absent /\ pending[1] = current_screen_index
  /\ set_screen_calls # <<>> /\ pending = Absent
       => SetScreenCycles[Len(SetScreenCycles)].index = current_screen_index
  /\ LET hits == MatchingScreens(heap, options, last_select.option)
     IN last_select.calls = IF hits = {} THEN <<>> ELSE <<Min(hits)>>

\* "Stats" was selected on the five-screen configuration while a poll of
\* screen 0 was running: one cycle for index 2 followed it
C12_Witness ==
  /\ NumScreens = 5
  /\ last_select = [option |-> "Stats", calls |-> <<2>>]
  /\ set_screen_calls = <<2>>
  /\ cycles = << [trigger |-> "poll", index |-> 0],
                 [trigger |-> "set_screen", index |-> 2] >>
  /\ in_flight = Absent
  /\ current_screen_index = 2

\* C12 as stated: every selection of an option the selector offers issues
\* exactly one async_set_screen call
C12_OneCallPerSelection ==
  last_select.option \in Range(current_screen_options(heap, options))
    => Len(last_select.calls) = 1

(* C13: theme 3 reads as the custom mode and themes 0, 1, 2 as clock,      *)
(* weather and system; selecting a mode option sends the theme that reads  *)
(* back as that option; an absent device state reads as the custom mode,   *)
(* and an option that is no mode is sent as theme 3.                       *)

C13_ModeRoundTrip ==
  /\ device_state # Absent
       => (LET theme == device_state[1].theme
               option == mode_current_option(device_state)
           IN /\ theme = 3 => option = "Custom Views"
              /\ theme = 0 => option = "Clock"
              /\ theme = 1 => option = "Weather"
              /\ theme = 2 => option = "System Info")
  /\ device_state = Absent => mode_current_option(device_state) = "Custom Views"
  /\ last_mode_call.option \in mode_options
       => /\ last_mode_call.theme \in 0..3
          /\ mode_current_option(Some([theme |-> last_mode_call.theme]))
               = last_mode_call.option
  /\ last_mode_call.option \notin mode_options \cup {None}
       => last_mode_call.theme = 3
  /\ (/\ last_mode_call.option \in mode_options
      /\ last_mode_call.raised = None
      /\ device_state = Some([theme |-> device_theme])
      /\ device_theme = last_mode_call.theme)
       => mode_current_option(device_state) = last_mode_call.option

\* "Clock" was selected, the device took theme 0, and the state fetched
\* after that reads back as "Clock"
C13_Witness ==
  /\ last_mode_call.option = "Clock"
  /\ last_mode_call.raised = None
  /\ device_theme = 0
  /\ device_state = Some([theme |-> 0])
  /\ ~refresh_pending

\* the slot indexes of a template's widgets, in catalog order
TemplateSlots(template) ==
  [i \in 1..Len(template.widgets) |-> template.widgets[i].slot]

\* the catalog by itself: distinct slots, each within the template's layout
CatalogFitsLayouts ==
  \A key \in DOMAIN SCREEN_TEMPLATES :
    LET template == SCREEN_TEMPLATES[key]
        slots == TemplateSlots(template)
    IN /\ template.layout \in DOMAIN LAYOUT_SLOT_COUNTS
       /\ \A i, j \in DOMAIN slots : i # j => slots[i] # slots[j]
       /\ \A i \in DOMAIN slots :
            slots[i] \in 0..(LAYOUT_SLOT_COUNTS[template.layout] - 1)

(* C14: in every template of the catalog the widgets' slot indexes are     *)
(* pairwise distinct and each is smaller than the slot count of the        *)
(* template's layout; and the screen a template has just been applied to   *)
(* holds one widget per slot, each slot below the slot count of the        *)
(* screen's layout.                                                        *)

C14_TemplatesFitLayout ==
  /\ CatalogFitsLayouts
  /\ (last_call.op \in {"apply_template", "select_template"} /\ last_call.updated)
       => LET screen == ScreenAddrs(heap, options)[last_call.screen + 1]
          IN /\ OneWidgetPerSlot(heap, screen)
             /\ \A w \in Range(WidgetAddrs(heap, screen)) :
                  heap[w]["slot"] \in 0..(SlotCountOf(heap, screen) - 1)

\* the two-slot thermostat template was applied to a screen that held a
\* widget at slot 5 before
C14_Witness ==
  /\ \E i \in 0..MaxScreenIndex : Applied(last_call, i, "thermostat")
  /\ last_call.screen < Len(PrevScreenAddrs)
  /\ \E w \in Range(WidgetAddrs(heap, PrevScreenAddrs[last_call.screen + 1])) :
       heap[w]["slot"] = 5

(* C15: the format the camera exposes is JPEG: the content type it         *)
(* declares names the format of the image the render cycle publishes as    *)
(* last_image, and every image async_camera_image returns, the placeholder *)
(* included, is of the declared format.                                    *)

C15_JpegExposed ==
  /\ coord_last_image # NoneImage
       => /\ coord_last_image.format = "jpeg"
          /\ FormatOfContentType(content_type) = coord_last_image.format
  /\ cam_returned # NotCalled
       => /\ FormatOfContentType(content_type) = "jpeg"
          /\ cam_returned.format = FormatOfContentType(content_type)

\* the positions of the close() calls among the device operations
Closes == {i \in DOMAIN dbg_ops : dbg_ops[i].op = "close"}
\* GeekMagicDevice(args.device_ip) has run
DeviceCreated == dbg_pc # "main" /\ ~dbg_args.list

(* C16: once the debug script has created the device client, close() is    *)
(* called exactly once by the time main is over, however the try block was *)
(* left (connection test failed, upload done, a device operation raised,   *)
(* Ctrl+C); close() is the last device operation; and without a device     *)
(* client no device operation is issued.                                   *)

C16_CloseOnEveryPath ==
  /\ Cardinality(Closes) <= 1
  /\ \A i \in Closes : i = Len(dbg_ops)
  /\ (dbg_pc = "done" /\ DeviceCreated)
       => /\ Cardinality(Closes) = 1
          /\ dbg_exit \in {"return", "end", "raised", "interrupt"}
  /\ ~DeviceCreated => dbg_ops = <<>>

\* the third upload of the cycle loop raised, and the connection was closed
C16_Witness ==
  /\ dbg_pc = "done"
  /\ dbg_exit = "raised"
  /\ dbg_args.cycle
  /\ dbg_idx = 2
  /\ Len(dbg_ops) = 6
  /\ dbg_ops[5] = DeviceOp("upload_and_display", "fitness")
  /\ dbg_ops[6] = DeviceOp("close", None)

(* C17: no two select entities handed to async_add_entities have the same  *)
(* key, over any sequence of configuration changes and discovery runs, and *)
(* exactly one of them is the current-screen selector, also when no        *)
(* screens are configured.                                                 *)

C17_NoDuplicateEntities ==
  LET keys == {hass_entities[i].key : i \in DOMAIN hass_entities}
  IN /\ Cardinality(keys) = Len(hass_entities)
     /\ Cardinality({i \in DOMAIN hass_entities :
                       hass_entities[i].key = EntityKey("current_screen", 0, 0)}) = 1
     /\ current_entity_ids = keys

\* a third screen was added by a template and a later discovery run created
\* its selectors beside the ones that existed
C17_Witness ==
  /\ n_calls > 0
  /\ \E i \in DOMAIN hass_entities :
       /\ i > 1
       /\ hass_entities[i].key = EntityKey("screen_slot_widget", 3, 1)
  /\ hass_entities[1].key = EntityKey("current_screen", 0, 0)

\* an entity with this key and description has been created
Created(key, select_type, screen_index, slot_index) ==
  /\ key \in current_entity_ids
  /\ Description(key, select_type, screen_index, slot_index) \in Range(hass_entities)

\* every screen of the configuration has its selectors
Covered ==
  LET screens == ScreenAddrs(heap, options)
  IN \A i \in 1..Len(screens) :
       LET layout == IF CONF_LAYOUT \in DOMAIN heap[screens[i]]
                     THEN heap[screens[i]][CONF_LAYOUT] ELSE LAYOUT_GRID_2X2
           slot_count == IF layout \in DOMAIN LAYOUT_SLOT_COUNTS
                         THEN LAYOUT_SLOT_COUNTS[layout] ELSE 4
       IN /\ Created(EntityKey("screen_template", i, 0), "template", i - 1, NoneIndex)
          /\ Created(EntityKey("screen_layout", i, 0), "layout", i - 1, NoneIndex)
          /\ \A j \in 1..slot_count :
               Created(EntityKey("screen_slot_widget", i, j), "widget_type",
                       i - 1, j - 1)

\* a run of the discovery callback would add nothing
NothingToAdd ==
  async_update_entities(current_entity_ids, heap, options).entities_to_add = <<>>

(* C18: after every run of the discovery callback (the one at setup, one   *)
(* that adds entities, one that finds nothing to add) every configured     *)
(* screen has a template selector, a layout selector and one slot-widget   *)
(* selector for each slot index below the slot count of its current        *)
(* layout, 4 when the layout is unknown.                                   *)

C18_DiscoveryCovers ==
  /\ [](NothingToAdd => Covered)
  /\ [][hass_entities' # hass_entities => Covered']_vars

\* the only screen went from 4 to 6 slots and the next discovery run added
\* the two missing slot selectors
C18_Witness ==
  /\ last_call.op = "set_layout" /\ last_call.updated
  /\ last_call.arg = "Grid 2x3 (6 slots)"
  /\ Len(hass_entities) = 9
  /\ hass_entities[9].key = EntityKey("screen_slot_widget", 1, 6)
  /\ Covered

\* the screen a slot-widget selection was made on, before and after it
WidgetCallUpdated == last_call.op = "set_widget" /\ last_call.updated
TargetBefore == PrevScreenAddrs[last_call.screen + 1]
TargetAfter == ScreenAddrs(heap, options)[last_call.screen + 1]

(* C19: after "Empty" has been selected for a slot, the screen holds no    *)
(* widget with that slot index and its widget list is the previous list    *)
(* without that widget, the others in their order; when the slot held no   *)
(* widget the list is the previous list.                                   *)

C19_EmptyRemovesWidget ==
  (WidgetCallUpdated /\ last_call.arg = "Empty")
    => LET before == WidgetValues(heap, TargetBefore)
           after == WidgetValues(heap, TargetAfter)
       IN /\ \A i \in DOMAIN after : ~HasSlot(after[i], last_call.slot)
          /\ after = SelectSeq(before, LAMBDA w : ~HasSlot(w, last_call.slot))
          /\ (\A i \in DOMAIN before : ~HasSlot(before[i], last_call.slot))
               => after = before

\* "Empty" was selected for the slot of the first of two widgets: the
\* second is what is left
C19_Witness ==
  /\ WidgetCallUpdated /\ last_call.arg = "Empty"
  /\ Len(WidgetValues(heap, TargetBefore)) = 2
  /\ HasSlot(WidgetValues(heap, TargetBefore)[1], last_call.slot)
  /\ WidgetValues(heap, TargetAfter) = << WidgetValues(heap, TargetBefore)[2] >>

\* a mapping but for one key
Without(d, k) == [x \in (DOMAIN d) \ {k} |-> d[x]]

(* C20: after a widget type other than "Empty" has been selected for a     *)
(* slot, the widget that was in the slot differs from before in its type   *)
(* only (options and other keys kept), or, when the slot held none, a      *)
(* widget with just that type and slot has been appended; the screen's     *)
(* other widgets, its name and layout, every other screen and every other  *)
(* key of the options are as before.                                       *)

C20_TypeChangeOnly ==
  (WidgetCallUpdated /\ last_call.arg \in WidgetNames \ {"Empty"})
    => LET widget_type == KeyOfName(WIDGET_OPTIONS, last_call.arg)
           before == WidgetValues(heap, TargetBefore)
           after == WidgetValues(heap, TargetAfter)
           hits == {i \in DOMAIN before : HasSlot(before[i], last_call.slot)}
           screens_before == PrevScreenAddrs
           screens_after == ScreenAddrs(heap, options)
       IN /\ IF hits # {}
             THEN /\ Len(after) = Len(before)
                  /\ \A i \in DOMAIN before :
                       after[i] = IF i = Min(hits)
                                  THEN SetKey(before[i], "type", widget_type)
                                  ELSE before[i]
             ELSE after = Append(before, [type |-> widget_type,
                                          slot |-> last_call.slot])
          /\ Without(heap[TargetAfter], CONF_WIDGETS)
               = Without(heap[TargetBefore], CONF_WIDGETS)
          /\ Len(screens_after) = Len(screens_before)
          /\ \A k \in DOMAIN screens_before :
               k # last_call.screen + 1
                 => /\ heap[screens_after[k]] = heap[screens_before[k]]
                    /\ ScreenValue(heap, screens_after[k])
                         = ScreenValue(heap, screens_before[k])
          /\ Without(heap[options], CONF_SCREENS)
               = Without(heap[prev_options], CONF_SCREENS)

\* "Gauge" was selected for a slot that held an entity widget with a label
\* and options, on the first of two screens
C20_Witness ==
  /\ WidgetCallUpdated /\ last_call.arg = "Gauge"
  /\ Len(PrevScreenAddrs) = 2 /\ last_call.screen = 0
  /\ \E i \in DOMAIN WidgetValues(heap, TargetBefore) :
       LET old == WidgetValues(heap, TargetBefore)[i]
           new == WidgetValues(heap, TargetAfter)[i]
       IN /\ HasSlot(old, last_call.slot)
          /\ old.type = "entity" /\ new.type = "gauge"
          /\ "options" \in DOMAIN old /\ new.options = old.options
          /\ new.label = old.label

\* a layout selection that updated the configuration
LayoutCallUpdated == last_call.op = "set_layout" /\ last_call.updated

(* C21: after a layout has been selected for a screen, that screen differs *)
(* from before in its layout key only: its name and its widget list, with  *)
(* any widget in a slot the new layout does not have, are as before, and   *)
(* so are every other screen and every other key of the options.           *)

C21_LayoutChangeOnly ==
  LayoutCallUpdated
    => LET screens_before == PrevScreenAddrs
           screens_after == ScreenAddrs(heap, options)
       IN /\ heap[TargetAfter][CONF_LAYOUT] = KeyOfName(LAYOUT_OPTIONS, last_call.arg)
          /\ Without(heap[TargetAfter], CONF_LAYOUT)
               = Without(heap[TargetBefore], CONF_LAYOUT)
          /\ WidgetValues(heap, TargetAfter) = WidgetValues(heap, TargetBefore)
          /\ Len(screens_after) = Len(screens_before)
          /\ \A k \in DOMAIN screens_before :
               k # last_call.screen + 1
                 => heap[screens_after[k]] = heap[screens_before[k]]
          /\ Without(heap[options], CONF_SCREENS)
               = Without(heap[prev_options], CONF_SCREENS)

\* the two-slot layout was selected for the first of two screens, which
\* keeps its widget at slot 5
C21_Witness ==
  /\ LayoutCallUpdated
  /\ last_call.arg = "Split (2 slots)"
  /\ last_call.screen = 0 /\ Len(PrevScreenAddrs) = 2
  /\ heap[TargetBefore][CONF_LAYOUT] = LAYOUT_GRID_2X3
  /\ \E i \in DOMAIN WidgetValues(heap, TargetAfter) :
       HasSlot(WidgetValues(heap, TargetAfter)[i], 5)

(* C22: once a selection of the layout selector or of a slot widget        *)
(* selector has updated the configuration, the selector's current_option   *)
(* is the option that was selected, for every option the selector offers.  *)

C22_ReadYourWrite ==
  /\ LayoutCallUpdated
       => layout_current_option(heap, options, last_call.screen) = last_call.arg
  /\ WidgetCallUpdated
       => widget_current_option(heap, options, last_call.screen, last_call.slot)
            = last_call.arg

\* "Camera" was selected for the last slot of the six-slot screen, whose
\* widget list holds the widget of that slot first
C22_Witness ==
  /\ WidgetCallUpdated
  /\ last_call.arg = "Camera"
  /\ last_call.slot = 5
  /\ widget_current_option(heap, prev_options, last_call.screen, 5) = "Entity"
  /\ widget_current_option(heap, options, last_call.screen, 5) = "Camera"

\* apply_template succeeded for an index at or beyond the end of the list
AppliedBeyondEnd ==
  /\ last_call.op = "apply_template"
  /\ last_call.updated
  /\ last_call.screen >= Len(PrevScreenAddrs)

\* the screen the padding loop appends at the 1-based position n
DefaultScreen(n) ==
  [name |-> CASE n = 1 -> "Screen 1" [] n = 2 -> "Screen 2" [] n = 3 -> "Screen 3"
              [] n = 4 -> "Screen 4" [] OTHER -> None,
   layout |-> LAYOUT_GRID_2X2, widgets |-> <<>>]

(* C23: apply_template with a screen_index at or beyond the end of the     *)
(* screen list leaves a list of screen_index + 1 screens: the screens that *)
(* were there are unchanged, and every screen between them and the target  *)
(* is a default screen named "Screen N" by its 1-based position, with the  *)
(* grid 2x2 layout and no widgets.                                         *)

C23_PaddedWithDefaults ==
  AppliedBeyondEnd
    => LET screens_before == PrevScreenAddrs
           screens_after == ScreenAddrs(heap, options)
       IN /\ Len(screens_after) = last_call.screen + 1
          /\ \A k \in DOMAIN screens_before :
               /\ heap[screens_after[k]] = heap[screens_before[k]]
               /\ WidgetValues(heap, screens_after[k])
                    = WidgetValues(heap, screens_before[k])
          /\ \A k \in (Len(screens_before) + 1)..last_call.screen :
               /\ DOMAIN heap[screens_after[k]] = {"name", CONF_LAYOUT, CONF_WIDGETS}
               /\ ScreenValue(heap, screens_after[k]) = DefaultScreen(k)
          /\ Without(heap[options], CONF_SCREENS)
               = Without(heap[prev_options], CONF_SCREENS)

\* a template was applied to the third screen of a one-screen list: the
\* first screen is kept, the second is padded, the third is the target
C23_Witness ==
  /\ AppliedBeyondEnd
  /\ last_call.screen = 2
  /\ Len(PrevScreenAddrs) = 1
  /\ Len(ScreenAddrs(heap, options)) = 3
  /\ heap[ScreenAddrs(heap, options)[2]]["name"] = "Screen 2"

\* a mode selection has run
ModeSelected == last_mode_call.option # None

(* C24: a mode selection calls set_theme first; the coordinator refresh is *)
(* requested after it, and only when set_theme completed; when set_theme   *)
(* raised DeviceUnreachable or DeviceRejected, no refresh is requested and *)
(* the selection raises that failure to its caller.                        *)

C24_RefreshAfterSetTheme ==
  ModeSelected
    => /\ last_mode_call.ops[1] = "set_theme"
       /\ last_mode_call.set_theme = "ok"
            => /\ last_mode_call.ops = <<"set_theme", "async_request_refresh">>
               /\ last_mode_call.raised = None
       /\ last_mode_call.set_theme # "ok"
            => /\ "async_request_refresh" \notin Range(last_mode_call.ops)
               /\ last_mode_call.raised = last_mode_call.set_theme
               /\ last_mode_call.raised \in {"DeviceUnreachable", "DeviceRejected"}

\* the device rejected the theme of "Weather": the selection raised, no
\* refresh is pending and the device shows another theme
C24_Witness ==
  /\ last_mode_call.option = "Weather"
  /\ last_mode_call.set_theme = "DeviceRejected"
  /\ last_mode_call.raised = "DeviceRejected"
  /\ ~refresh_pending
  /\ device_theme # last_mode_call.theme

====
